---- MODULE Spec2Model ----
(***************************************************************************)
(* A model of etl_script.py: the __main__ block (configuration, secret,    *)
(* the call of etl_pipeline and its except clause), etl_pipeline and its   *)
(* three stages extract_data, transform_data and load_data_to_postgresql,  *)
(* and the destination table the JDBC writer appends to.                   *)
(*                                                                         *)
(* Strings are sequences of one-character strings.  A DataFrame is its     *)
(* schema (the set of column names) and its rows.  Spark builds a lazy     *)
(* plan in transform_data and evaluates it in save(); the plan is a        *)
(* deterministic function of the unchanged input file, so the rows are     *)
(* computed where the plan is built, and an evaluation-time failure (an    *)
(* ANSI cast error) is carried in the row and raised by the load stage,    *)
(* where Spark raises it.  Column resolution is eager in Spark, so an      *)
(* unresolved column raises in the statement that names it.                *)
(* The columns name and signup_date are carried in the schema only: no     *)
(* row value of theirs decides a transition.                               *)
(***************************************************************************)
EXTENDS Bags, FiniteSets, Integers, Sequences, TLC

VARIABLES
    env,            \* os.environ after load_dotenv(): key -> is it set
    secretExists,   \* does the file at SECRET_POSTGRES_PASSWORD_PATH exist
    fileReadable,   \* can spark.read.csv open "data.csv"
    header,         \* the column names of the header row of data.csv
    fileRows,       \* the data rows of data.csv, in file order
    ansi,           \* spark.sql.ansi.enabled of the installed Spark (never set by the script)
    pc,             \* position of the process
    spark,          \* the SparkSession: "none", "active", "stopped"
    df,             \* the local variable df of etl_pipeline
    failedStage,    \* the stage whose call raised, "none" if none did
    exitCode,       \* process exit status, -1 while running
    table,          \* the destination table, a bag of rows
    tableAtStart,   \* history: the table when this process started
    calls,          \* history: the stage calls of this run, <<stage, returned normally>>
    runs,           \* history: process invocations so far
    completed,      \* history: runs that reached "ETL process completed successfully."
    partial         \* history: rows committed by save() calls that then raised

vars == <<env, secretExists, fileReadable, header, fileRows, ansi, pc, spark, df,
          failedStage, exitCode, table, tableAtStart, calls, runs, completed, partial>>

(***************************************************************************)
(* Bounds of the model.                                                    *)
(***************************************************************************)
MaxRows == 2        \* data rows in data.csv
MaxRuns == 2        \* invocations of the script against one destination table
MaxEmailLen == 7    \* length of the e-mail strings enumerated for the validation rule

(***************************************************************************)
(* Values.                                                                 *)
(***************************************************************************)
NULL == <<"NULL">>      \* SQL NULL of a string column (no character is "NULL")
EmptyStr == <<>>

Keys == {"JDBC_URL", "POSTGRES_USER", "POSTGRES_TABLE", "SECRET_POSTGRES_PASSWORD_PATH"}

ExpectedHeader == {"user_id", "name", "email", "signup_date"}

Headers == {ExpectedHeader,
            ExpectedHeader \ {"email"},
            ExpectedHeader \ {"user_id"},
            ExpectedHeader \cup {"extra"},
            {}}

Digits == {"0", "1", "2", "3", "4", "5", "6", "7", "8", "9"}
Letters == {"a", "b", "c"}
DomainClass == Letters \cup Digits \cup {".", "-"}   \* [A-Za-z0-9.-] over the model's characters

EmailChars == {"a", "@", "."}

SampleEmails == {<<"a", "@", "b", ".", "c">>,
                 <<"a", "@", "b", "_", "c", ".", "c">>,
                 <<"b", "a", "d">>,
                 NULL}

SampleUserIds == {<<"4", "2">>, <<"a", "b", "c">>}

IntMax == 2147483647     \* the largest value of Spark's "int"

StrVal(s) == [kind |-> "string", str |-> s, val |-> 0]
IntVal(n) == [kind |-> "int", str |-> EmptyStr, val |-> n]
NullVal == [kind |-> "null", str |-> EmptyStr, val |-> 0]
ErrVal == [kind |-> "error", str |-> EmptyStr, val |-> 0]

NoDF == [cols |-> {}, rows |-> <<>>]

Sub(s, i, j) == [k \in 1..(j - i + 1) |-> s[i + k - 1]]
NoAt(s, i, j) == \A k \in i..j : s[k] # "@"

(***************************************************************************)
(* col("email").rlike(r"^[^@]+@[^@]+\.[^@]+$"): the pattern is anchored at *)
(* both ends, so find() succeeds iff the string splits as                  *)
(*   s[1..i-1] @ s[i+1..j-1] . s[j+1..n]                                   *)
(* with the three parts non-empty and free of "@".  A NULL email gives     *)
(* NULL, which filter() treats as not true.  ($ also matches before a      *)
(* final line terminator, but [^@]+ takes a line terminator too, so the    *)
(* strings matched are the same.)                                          *)
(***************************************************************************)
\* The same pattern with the dot left unescaped: it matches any character.
RLikeUnescapedDot(s) ==
    IF s = NULL THEN "null"
    ELSE IF \E i \in 2..Len(s) : \E j \in (i + 2)..(Len(s) - 1) :
               /\ NoAt(s, 1, i - 1)
               /\ s[i] = "@"
               /\ NoAt(s, i + 1, j - 1)
               /\ NoAt(s, j + 1, Len(s))
         THEN "true" ELSE "false"

RLike(s) ==
    IF s = NULL THEN "null"
    ELSE IF \E i \in 2..Len(s) : \E j \in (i + 2)..(Len(s) - 1) :
               /\ NoAt(s, 1, i - 1)
               /\ s[i] = "@"
               /\ NoAt(s, i + 1, j - 1)
               /\ s[j] = "."
               /\ NoAt(s, j + 1, Len(s))
         THEN "true" ELSE "false"

(***************************************************************************)
(* regexp_extract(col("email"), r'@([A-Za-z0-9.-]+)', 1): group 1 of the   *)
(* leftmost match, greedy; the empty string when nothing matches; NULL for *)
(* a NULL email.                                                           *)
(***************************************************************************)
RunEnd(s, i) ==
    CHOOSE e \in i..Len(s) :
        /\ \A k \in i..e : s[k] \in DomainClass
        /\ (e = Len(s) \/ s[e + 1] \notin DomainClass)

RegexpExtract(s) ==
    IF s = NULL THEN NULL
    ELSE LET starts == {i \in 1..(Len(s) - 1) : s[i] = "@" /\ s[i + 1] \in DomainClass}
         IN  IF starts = {} THEN EmptyStr
             ELSE LET i == CHOOSE x \in starts : \A y \in starts : x <= y
                  IN  Sub(s, i + 1, RunEnd(s, i + 1))

(***************************************************************************)
(* col("user_id").cast("int") on a string: an optional sign, digits, and   *)
(* an optional fraction that is dropped; anything else, or a value outside *)
(* 32 bits, is NULL, and under ANSI mode an error raised when the row is   *)
(* evaluated.  A NULL user_id stays NULL.                                  *)
(***************************************************************************)
DigitVal(c) == CASE c = "0" -> 0 [] c = "1" -> 1 [] c = "2" -> 2 [] c = "3" -> 3
                 [] c = "4" -> 4 [] c = "5" -> 5 [] c = "6" -> 6 [] c = "7" -> 7
                 [] c = "8" -> 8 [] c = "9" -> 9

RECURSIVE Accumulate(_)
Accumulate(s) ==
    IF s = EmptyStr THEN [v |-> 0, overflow |-> FALSE]
    ELSE LET p == Accumulate(Sub(s, 1, Len(s) - 1))
             d == DigitVal(s[Len(s)])
         IN  IF p.overflow \/ p.v > (IntMax - d) \div 10
             THEN [v |-> 0, overflow |-> TRUE]
             ELSE [v |-> p.v * 10 + d, overflow |-> FALSE]

AllDigits(s) == \A k \in 1..Len(s) : s[k] \in Digits

Unsigned(s) == IF s # EmptyStr /\ s[1] \in {"-", "+"} THEN Sub(s, 2, Len(s)) ELSE s

\* The one literal -2147483648 is treated as out of range.
IsIntLiteral(s) ==
    /\ s # NULL
    /\ Unsigned(s) # EmptyStr
    /\ AllDigits(Unsigned(s))
    /\ ~Accumulate(Unsigned(s)).overflow

IntOf(s) ==
    IF s[1] = "-" THEN 0 - Accumulate(Unsigned(s)).v ELSE Accumulate(Unsigned(s)).v

IntegralPart(s) ==
    LET dots == {k \in 1..Len(s) : s[k] = "."}
    IN  IF dots = {} THEN s
        ELSE LET d == CHOOSE x \in dots : \A y \in dots : x <= y
             IN  IF AllDigits(Sub(s, d + 1, Len(s))) THEN Sub(s, 1, d - 1) ELSE EmptyStr

CastInt(s, ansiMode) ==
    IF s = NULL THEN NullVal
    ELSE IF ansiMode
         THEN IF IsIntLiteral(s) THEN IntVal(IntOf(s)) ELSE ErrVal
         ELSE IF IsIntLiteral(IntegralPart(s)) THEN IntVal(IntOf(IntegralPart(s)))
              ELSE NullVal

(***************************************************************************)
(* Rows.  A row read from the file has the raw strings; domain is absent   *)
(* (NULL here) until transform_data adds the column.                       *)
(***************************************************************************)
RawRow(u, e) == [user_id |-> StrVal(u), email |-> e, domain |-> NULL]

SampleRows == {RawRow(u, e) : u \in SampleUserIds, e \in SampleEmails}

SeqsUpTo(S, n) == UNION {[1..k -> S] : k \in 0..n}

AllEmails == SeqsUpTo(EmailChars, MaxEmailLen) \cup {NULL}

\* The keys os.environ may lack: none, or one of them.
Unsets == {{}} \cup {{k} : k \in Keys}

RECURSIVE BagOfRows(_)
BagOfRows(rows) ==
    IF rows = <<>> THEN EmptyBag
    ELSE SetToBag({rows[1]}) (+) BagOfRows(Tail(rows))

RECURSIVE Pick(_, _, _)
\* The rows of `rows` at the indices in S, from index i on, in order.
Pick(rows, S, i) ==
    IF i > Len(rows) THEN <<>>
    ELSE IF i \in S THEN <<rows[i]>> \o Pick(rows, S, i + 1)
         ELSE Pick(rows, S, i + 1)

(***************************************************************************)
(* The script started: nothing read yet.                                   *)
(***************************************************************************)
Fresh ==
    /\ pc = "Start"
    /\ spark = "none"
    /\ df = NoDF
    /\ failedStage = "none"
    /\ exitCode = -1
    /\ calls = <<>>

Init ==
    /\ \E unset \in Unsets : env = [k \in Keys |-> k \notin unset]
    /\ secretExists \in (IF env["SECRET_POSTGRES_PASSWORD_PATH"] THEN BOOLEAN ELSE {FALSE})
    /\ fileReadable \in BOOLEAN
    /\ header \in Headers
    /\ fileRows \in (IF ExpectedHeader \subseteq header
                     THEN SeqsUpTo(SampleRows, MaxRows) ELSE {<<>>})
    /\ ansi \in BOOLEAN
    /\ Fresh
    /\ table = EmptyBag
    /\ tableAtStart = EmptyBag
    /\ runs = 1
    /\ completed = 0
    /\ partial = 0

(***************************************************************************)
(* __main__, lines 101-114: the four os.getenv calls return None for an    *)
(* unset key and nothing checks them.  get_postgres_password(None) raises  *)
(* TypeError from open(), which nothing catches; a missing secret file is  *)
(* exit(1).  Otherwise the process goes on to call etl_pipeline.           *)
(***************************************************************************)
Main ==
    /\ pc = "Start"
    /\ IF ~env["SECRET_POSTGRES_PASSWORD_PATH"] \/ ~secretExists
       THEN pc' = "Exited" /\ exitCode' = 1
       ELSE pc' = "Idle" /\ exitCode' = exitCode
    /\ UNCHANGED <<env, secretExists, fileReadable, header, fileRows, ansi, spark, df,
                   failedStage, table, tableAtStart, calls, runs, completed, partial>>

(***************************************************************************)
(* etl_pipeline, lines 82-85: SparkSession.builder...getOrCreate().        *)
(***************************************************************************)
StartPipeline ==
    /\ pc = "Idle"
    /\ spark' = "active"
    /\ pc' = "Extracting"
    /\ UNCHANGED <<env, secretExists, fileReadable, header, fileRows, ansi, df,
                   failedStage, exitCode, table, tableAtStart, calls, runs, completed, partial>>

(***************************************************************************)
(* Where etl_pipeline is after a stage call: the next statement when the   *)
(* call returned, out of the function (to the except clause of __main__)   *)
(* when it raised: every except clause of the stages ends in raise and     *)
(* etl_pipeline has no try.                                                *)
(***************************************************************************)
Successor(stage) ==
    CASE stage = "Extracting" -> "Validating"
      [] stage = "Validating" -> "Transforming"
      [] stage = "Transforming" -> "Loading"
      [] stage = "Loading" -> "Completed"

AfterCallSwallowed(stage, ok) == Successor(stage)

AfterCall(stage, ok) == IF ok THEN Successor(stage) ELSE "Failed"

Step(stage, ok) ==
    /\ pc' = AfterCall(stage, ok)
    /\ failedStage' = IF ok THEN failedStage ELSE stage
    /\ calls' = Append(calls, <<stage, ok>>)

(***************************************************************************)
(* extract_data: spark.read.csv(input_file, header=True, inferSchema=False)*)
(* raises when the path cannot be read; otherwise the DataFrame has the    *)
(* columns the header names, whatever they are (an empty file gives no     *)
(* columns and no rows).                                                   *)
(***************************************************************************)
ReadCsvAlwaysReturns == TRUE

ReadCsvReturns == fileReadable

Extract ==
    /\ pc = "Extracting"
    /\ df' = IF ReadCsvReturns THEN [cols |-> header, rows |-> fileRows] ELSE df
    /\ Step("Extracting", ReadCsvReturns)
    /\ UNCHANGED <<env, secretExists, fileReadable, header, fileRows, ansi, spark,
                   exitCode, table, tableAtStart, runs, completed, partial>>

(***************************************************************************)
(* transform_data, line 52: df.filter(col("email").rlike(...)).  An        *)
(* unresolved column email is an AnalysisException, logged and re-raised.  *)
(***************************************************************************)
FilterEmails(rows) ==
    LET Keep(r) == RLike(r.email) = "true"
    IN  SelectSeq(rows, Keep)

Validate ==
    /\ pc = "Validating"
    /\ LET ok == "email" \in df.cols
       IN  /\ df' = IF ok THEN [cols |-> df.cols, rows |-> FilterEmails(df.rows)] ELSE df
           /\ Step("Validating", ok)
    /\ UNCHANGED <<env, secretExists, fileReadable, header, fileRows, ansi, spark,
                   exitCode, table, tableAtStart, runs, completed, partial>>

(***************************************************************************)
(* transform_data, lines 53-55: the three withColumn calls.  signup_date   *)
(* and user_id must resolve (email did, in line 52).                       *)
(***************************************************************************)
TransformRow(r) ==
    [user_id |-> CastInt(r.user_id.str, ansi),
     email |-> r.email,
     domain |-> RegexpExtract(r.email)]

TransformCols ==
    /\ pc = "Transforming"
    /\ LET ok == {"signup_date", "user_id"} \subseteq df.cols
       IN  /\ df' = IF ok
                    THEN [cols |-> df.cols \cup {"domain"},
                          rows |-> [i \in 1..Len(df.rows) |-> TransformRow(df.rows[i])]]
                    ELSE df
           /\ Step("Transforming", ok)
    /\ UNCHANGED <<env, secretExists, fileReadable, header, fileRows, ansi, spark,
                   exitCode, table, tableAtStart, runs, completed, partial>>

(***************************************************************************)
(* load_data_to_postgresql: df.write.format("jdbc").options(...)           *)
(* .mode('append').save().  An option that is None makes save() raise      *)
(* before anything is written.  Evaluating a row whose cast failed under   *)
(* ANSI mode raises.  The destination may fail for its own reasons         *)
(* (connection, authentication, schema).  When save() raises, the rows of  *)
(* the partitions already committed stay in the table.                     *)
(***************************************************************************)
SaveOverwrite(tbl, rows) == BagOfRows(rows)

SaveAppend(tbl, rows) == tbl (+) BagOfRows(rows)

OptionsSet == env["JDBC_URL"] /\ env["POSTGRES_TABLE"] /\ env["POSTGRES_USER"]

Evaluable(r) == r.user_id.kind # "error"

LoadOk ==
    /\ pc = "Loading"
    /\ OptionsSet
    /\ \A i \in 1..Len(df.rows) : Evaluable(df.rows[i])
    /\ table' = SaveAppend(table, df.rows)
    /\ completed' = completed + 1
    /\ Step("Loading", TRUE)
    /\ UNCHANGED <<env, secretExists, fileReadable, header, fileRows, ansi, spark, df,
                   exitCode, tableAtStart, runs, partial>>

LoadRaise ==
    /\ pc = "Loading"
    /\ \E S \in SUBSET (1..Len(df.rows)) :
          /\ ~OptionsSet => S = {}
          /\ \A i \in S : Evaluable(df.rows[i])
          /\ S = 1..Len(df.rows) => S = {}
          /\ table' = SaveAppend(table, Pick(df.rows, S, 1))
          /\ partial' = partial + Cardinality(S)
    /\ Step("Loading", FALSE)
    /\ UNCHANGED <<env, secretExists, fileReadable, header, fileRows, ansi, spark, df,
                   exitCode, tableAtStart, runs, completed>>

(***************************************************************************)
(* etl_pipeline, lines 96-97, and the normal end of __main__: the message, *)
(* spark.stop(), and the interpreter exits with status 0.                  *)
(***************************************************************************)
Complete ==
    /\ pc = "Completed"
    /\ spark' = "stopped"
    /\ pc' = "Exited"
    /\ exitCode' = 0
    /\ UNCHANGED <<env, secretExists, fileReadable, header, fileRows, ansi, df,
                   failedStage, table, tableAtStart, calls, runs, completed, partial>>

(***************************************************************************)
(* __main__, lines 118-119: except Exception logs "ETL process failed" and *)
(* falls off the end of the script: the session is not stopped and the     *)
(* interpreter exits with status 0.                                        *)
(***************************************************************************)
HandleFailure ==
    /\ pc = "Failed"
    /\ pc' = "Exited"
    /\ exitCode' = 0
    /\ UNCHANGED <<env, secretExists, fileReadable, header, fileRows, ansi, spark, df,
                   failedStage, table, tableAtStart, calls, runs, completed, partial>>

(***************************************************************************)
(* The script is run again, on the same file and the same destination;     *)
(* whether the file can be read may have changed since the last run.       *)
(***************************************************************************)
NewRun ==
    /\ pc = "Exited"
    /\ runs < MaxRuns
    /\ fileReadable' \in BOOLEAN
    /\ runs' = runs + 1
    /\ tableAtStart' = table
    /\ pc' = "Start"
    /\ spark' = "none"
    /\ df' = NoDF
    /\ failedStage' = "none"
    /\ exitCode' = -1
    /\ calls' = <<>>
    /\ UNCHANGED <<env, secretExists, header, fileRows, ansi, table, completed, partial>>

Next ==
    \/ Main
    \/ StartPipeline
    \/ Extract
    \/ Validate
    \/ TransformCols
    \/ LoadOk
    \/ LoadRaise
    \/ Complete
    \/ HandleFailure
    \/ NewRun

Spec == Init /\ [][Next]_vars

(***************************************************************************)
(* The validation rule on every e-mail string up to MaxEmailLen: a         *)
(* complete configuration, a readable file with the expected header, and   *)
(* the run up to the end of the filter.  The e-mail of the last row of the *)
(* file ranges over every string, those of the rows before it over the     *)
(* samples.                                                                *)
(***************************************************************************)
EnumeratedFiles ==
    {<<>>} \cup
    {lead \o <<RawRow(<<"4", "2">>, e)>> :
        lead \in SeqsUpTo({RawRow(<<"4", "2">>, x) : x \in SampleEmails}, MaxRows - 1),
        e \in AllEmails}

InitValidate ==
    /\ env = [k \in Keys |-> TRUE]
    /\ secretExists = TRUE
    /\ fileReadable = TRUE
    /\ header = ExpectedHeader
    /\ fileRows \in EnumeratedFiles
    /\ ansi = FALSE
    /\ Fresh
    /\ table = EmptyBag
    /\ tableAtStart = EmptyBag
    /\ runs = 1
    /\ completed = 0
    /\ partial = 0

NextValidate ==
    \/ Main
    \/ StartPipeline
    \/ Extract
    \/ Validate

SpecValidate == InitValidate /\ [][NextValidate]_vars

(***************************************************************************)
(* Vocabulary of the properties.                                           *)
(***************************************************************************)
StageOrder == <<"Extracting", "Validating", "Transforming", "Loading">>

RunFailed == failedStage # "none"

Called(stage) == \E i \in 1..Len(calls) : calls[i][1] = stage

AtPositions(s) == {k \in 1..Len(s) : s[k] = "@"}

\* One "@" with something before it, and after it a dot that is neither the
\* first nor the last character of what follows the "@".
ShapeOK(s) ==
    /\ s # NULL
    /\ Cardinality(AtPositions(s)) = 1
    /\ LET a == CHOOSE k \in AtPositions(s) : TRUE
       IN  /\ a > 1
           /\ \E d \in (a + 2)..(Len(s) - 1) : s[d] = "."

AfterAt(s) ==
    LET a == CHOOSE k \in AtPositions(s) : TRUE
    IN  Sub(s, a + 1, Len(s))

ValidRows(rows) ==
    LET Ok(r) == ShapeOK(r.email)
    IN  SelectSeq(rows, Ok)

ValidCount == Len(ValidRows(fileRows))

ConfigMissing == (\E k \in Keys : ~env[k]) \/ ~secretExists

\* C1: every run that reaches Failed has stopped the session it opened by the
\* time the process has ended, whichever stage failed.
C1_SessionReleasedOnFailure ==
    (pc = "Exited" /\ RunFailed) => spark = "stopped"

\* C2: the stage calls of a run are an initial part of Extracting, Validating,
\* Transforming, Loading, in that order and each at most once; only the last
\* call made can have raised; a stage is entered only when all stages before it
\* returned; after a raise the run is Failed (then ended) and Completed is
\* reached only after all four returned.
C2_StrictlyForward ==
    /\ Len(calls) <= Len(StageOrder)
    /\ \A i \in 1..Len(calls) :
          /\ calls[i][1] = StageOrder[i]
          /\ i < Len(calls) => calls[i][2]
    /\ pc \in {"Extracting", "Validating", "Transforming", "Loading"} =>
          /\ Len(calls) < Len(StageOrder)
          /\ pc = StageOrder[Len(calls) + 1]
          /\ \A i \in 1..Len(calls) : calls[i][2]
    /\ pc = "Completed" =>
          /\ Len(calls) = Len(StageOrder)
          /\ \A i \in 1..Len(calls) : calls[i][2]
    /\ RunFailed =>
          /\ pc \in {"Failed", "Exited"}
          /\ calls[Len(calls)] = <<failedStage, FALSE>>
    /\ pc = "Failed" => RunFailed
    /\ (calls # <<>> /\ ~calls[Len(calls)][2]) => RunFailed

C2_FailedInTransform ==
    /\ pc = "Exited"
    /\ failedStage = "Transforming"
    /\ calls = << <<"Extracting", TRUE>>, <<"Validating", TRUE>>, <<"Transforming", FALSE>> >>

\* C3: a run that ended in Failed exits with a non-zero status.
C3_NonZeroStatusOnFailure ==
    (pc = "Exited" /\ RunFailed) => exitCode # 0

\* C4: when a record that passes validation has a user_id that is not an
\* integer literal, the call of transform_data raises and the run writes
\* nothing; and no row of the table has a user_id that is not an integer.
C4_BadUserIdAbortsInTransform ==
    /\ ( /\ pc = "Exited"
         /\ Called("Transforming")
         /\ \E i \in 1..Len(fileRows) :
               /\ ShapeOK(fileRows[i].email)
               /\ ~IsIntLiteral(fileRows[i].user_id.str) )
       => (failedStage = "Transforming" /\ table = tableAtStart)
    /\ \A r \in BagToSet(table) : r.user_id.kind = "int"

\* C5: once the filter has run, it did not raise, its output is exactly the
\* input records whose email has the shape, in order, and filtering the
\* output again changes nothing.
C5_FilterIffShape ==
    Called("Validating") =>
        /\ pc = "Transforming"
        /\ ~RunFailed
        /\ df.rows = ValidRows(fileRows)
        /\ FilterEmails(df.rows) = df.rows

C5_OneKeptOneDropped ==
    /\ pc = "Transforming"
    /\ Len(fileRows) = 2
    /\ fileRows[1].email = NULL
    /\ fileRows[2].email = <<"a", "@", ".", ".", "a">>
    /\ df.rows = <<fileRows[2]>>

\* C6: every transformed row has as domain all of its email after the "@",
\* and that is not empty.
C6_DomainIsAllAfterAt ==
    "domain" \in df.cols =>
        \A i \in 1..Len(df.rows) :
            /\ df.rows[i].domain = AfterAt(df.rows[i].email)
            /\ df.rows[i].domain # EmptyStr

\* C7: the rows the table had when a run started are all still in it; a run
\* that reached Completed added exactly one row per input record that passed
\* validation; over all runs the table holds that many rows per completed run
\* (plus what failed loads committed), duplicates included.
C7_AppendOnly ==
    /\ tableAtStart \sqsubseteq table
    /\ (Called("Loading") /\ ~RunFailed) =>
          /\ BagCardinality(table) = BagCardinality(tableAtStart) + ValidCount
          /\ table = tableAtStart (+) BagOfRows([i \in 1..ValidCount |->
                                                    TransformRow(ValidRows(fileRows)[i])])
    /\ BagCardinality(table) = completed * ValidCount + partial

C7_TwiceGivesDouble ==
    /\ completed = 2
    /\ partial = 0
    /\ ValidCount >= 1
    /\ BagCardinality(table) = 2 * ValidCount
    /\ \E r \in BagToSet(table) : CopiesIn(r, table) >= 2

\* C8: when the file cannot be read, the only stage call of the run is
\* extract_data, it raised, and the table is as it was when the run started.
C8_UnreadableFileWritesNothing ==
    (~fileReadable /\ calls # <<>>) =>
        /\ calls = << <<"Extracting", FALSE>> >>
        /\ failedStage = "Extracting"
        /\ pc \in {"Failed", "Exited"}
        /\ table = tableAtStart

C8_UnreadableAfterALoad ==
    /\ ~fileReadable
    /\ pc = "Exited"
    /\ failedStage = "Extracting"
    /\ table # EmptyBag

\* C9: when the header of a readable file is not exactly user_id, name, email,
\* signup_date, the call of extract_data raises: no later stage is called and
\* nothing is written.
C9_HeaderMismatchFailsExtraction ==
    (fileReadable /\ header # ExpectedHeader /\ calls # <<>>) =>
        /\ calls = << <<"Extracting", FALSE>> >>
        /\ table = tableAtStart

\* C10: with a configuration value absent or the secret file missing, the
\* process ends with a non-zero status before etl_pipeline is called.
C10_MissingConfigStopsBeforePipeline ==
    ConfigMissing =>
        /\ pc \in {"Start", "Idle", "Exited"}
        /\ spark = "none"
        /\ calls = <<>>
        /\ pc = "Exited" => exitCode # 0
====
